---- MODULE Spec2Model ----
(***************************************************************************)
(* Model of the car_web_client dashboard components:                       *)
(*   - the frame stream consumer   (components/VideoStream.vue),           *)
(*   - the metadata stream consumer (components/MetadataPanel.vue),        *)
(*   - the mode/reset controller    (resetState, toggleAggressiveMode,     *)
(*     setAggressiveMode and the mode selector of the video component      *)
(*     that carries the control buttons).                                  *)
(* Every handler runs to completion on the single-threaded event loop, so  *)
(* every handler is one action.  An async function is two actions: the     *)
(* part before `await fetch(...)` and the part after the fetch settled.    *)
(***************************************************************************)
EXTENDS Integers, Sequences, FiniteSets, TLC

\* ---------------------------------------------------------------- bounds
\* EventSource objects one consumer may create in a run
MaxConns == 3
\* staleness timers the frame consumer may schedule in a run
MaxTimers == 3
\* async control invocations that may be suspended at their fetch at once
MaxCalls == 3

\* ------------------------------------------------------------- constants
\* a null handle (frameSource, metadataSource, timeoutId, metadata)
Null == 0

Modes == <<"idle", "chasing", "explosion">>
ModeSet == {Modes[i] : i \in 1..Len(Modes)}

\* HTTP statuses the control endpoint answers with in the model
Statuses == {200, 204, 404, 500}
\* what a fetch settles to: a response with a status, or a rejection
Outcomes == [type : {"response"}, status : Statuses]
              \cup {[type |-> "reject", status |-> 0]}

\* event.data texts the streams deliver
FramePayloads == {"frame_object", "empty_object", "null_literal", "truncated_json"}
MetaPayloads == {"snapshot_a", "snapshot_b", "null_literal", "truncated_json"}

VARIABLES
    \* frame stream consumer
    lifecycle,           \* "setup" | "mounted" | "unmounted"
    frameSource,         \* Null or the index of an EventSource in readyState
    readyState,          \* sequence: readyState of every EventSource created
    isRunning,
    isVideoUnavailable,
    hasLastFrame,
    timeoutId,           \* Null or the index of a timer in timers
    timers,              \* sequence: "PENDING" | "CLEARED" | "FIRED"
    \* metadata stream consumer
    metaLifecycle,
    metadataSource,
    metaReadyState,
    metaIsRunning,
    metadata,            \* "null" or the value of the last parsed message
    \* mode/reset controller
    aggressiveMode,
    isResetting,
    isTogglingMode,
    calls,               \* async invocations suspended at `await fetch`
    \* observation of the last handler that ran
    lastOp,              \* name of the handler (and branch) that ran last
    lastData,            \* event.data of that handler, "" when it had none
    lastInput,           \* mode argument / fetch outcome of that handler
    emitted,             \* notifications that handler emitted, in order
    staleSinceFrame,     \* staleness disconnected since the last frame
    discSinceFrame       \* all disconnected since the last frame

frameVars == <<lifecycle, frameSource, readyState, isRunning,
               isVideoUnavailable, hasLastFrame, timeoutId, timers,
               staleSinceFrame, discSinceFrame>>
metaVars == <<metaLifecycle, metadataSource, metaReadyState, metaIsRunning,
              metadata>>
ctrlVars == <<aggressiveMode, isResetting, isTogglingMode, calls>>
vars == <<frameVars, metaVars, ctrlVars, lastOp, lastData, lastInput, emitted>>

\* ------------------------------------------------------------- helpers
BoolStr(b) == IF b THEN "true" ELSE "false"

\* one emit(name, arg) call
Emit(name, arg, code) == [name |-> name, arg |-> arg, code |-> code]

\* EventSource objects that hold a connection (readyState is not CLOSED)
OpenConns(rs) == {c \in 1..Len(rs) : rs[c] # "CLOSED"}

\* timers that are scheduled and neither cleared nor fired
PendingTimers == {t \in 1..Len(timers) : timers[t] = "PENDING"}

\* JSON.parse(event.data): the parsed value, or "SyntaxError" when it throws
JSONParse(text) ==
    CASE text = "frame_object"   -> "object_with_frame"
      [] text = "empty_object"   -> "object_without_frame"
      [] text = "null_literal"   -> "null"
      [] text = "snapshot_a"     -> "snapshot_a"
      [] text = "snapshot_b"     -> "snapshot_b"
      [] OTHER                   -> "SyntaxError"

\* EventSource.close() on connection c
Close(rs, c) == [rs EXCEPT ![c] = "CLOSED"]

\* clearTimeout that cancels nothing
ClearTimeout_NoOp(ts, t) == ts

\* clearTimeout(t)
ClearTimeout(ts, t) == [ts EXCEPT ![t] = IF @ = "PENDING" THEN "CLEARED" ELSE @]

\* document.getElementById('frame'): the <img id="frame" v-show=...> is in
\* the document exactly while the component is mounted
FrameElement == lifecycle = "mounted"

\* what lastInput records: nothing, the mode a handler was called with, or
\* the mode of a suspended call together with what its fetch settled to
NoInput == [mode |-> "", type |-> "", status |-> 0]
CallInput(mode) == [mode |-> mode, type |-> "", status |-> 0]
SettledInput(call, outcome) ==
    [mode |-> call.mode, type |-> outcome.type, status |-> outcome.status]

Init ==
    /\ lifecycle = "setup"
    /\ frameSource = Null
    /\ readyState = <<>>
    /\ isRunning = FALSE
    /\ isVideoUnavailable = FALSE
    /\ hasLastFrame = FALSE
    /\ timeoutId = Null
    /\ timers = <<>>
    /\ metaLifecycle = "setup"
    /\ metadataSource = Null
    /\ metaReadyState = <<>>
    /\ metaIsRunning = FALSE
    /\ metadata = "null"
    /\ aggressiveMode = "idle"
    /\ isResetting = FALSE
    /\ isTogglingMode = FALSE
    /\ calls = <<>>
    /\ lastOp = "setup"
    /\ lastData = ""
    /\ lastInput = NoInput
    /\ emitted = <<>>
    /\ staleSinceFrame = 0
    /\ discSinceFrame = 0

\* ------------------------------------------------- frame stream consumer
\* startStream() that also arms the staleness timer
StartStream_ArmsTimer ==
    /\ readyState' = Append(IF frameSource # Null
                              THEN Close(readyState, frameSource)
                              ELSE readyState,
                            "CONNECTING")
    /\ frameSource' = Len(readyState) + 1
    /\ isRunning' = TRUE
    /\ emitted' = <<Emit("statusChanged", "true", 0)>>
    /\ timers' = Append(timers, "PENDING")
    /\ timeoutId' = Len(timers) + 1
    /\ UNCHANGED <<isVideoUnavailable, hasLastFrame, staleSinceFrame,
                   discSinceFrame>>

\* startStream(): the part that changes the component's state
StartStream ==
    /\ readyState' = Append(IF frameSource # Null
                              THEN Close(readyState, frameSource)
                              ELSE readyState,
                            "CONNECTING")
    /\ frameSource' = Len(readyState) + 1
    /\ isRunning' = TRUE
    /\ emitted' = <<Emit("statusChanged", "true", 0)>>
    /\ UNCHANGED <<isVideoUnavailable, hasLastFrame, timeoutId, timers,
                   staleSinceFrame, discSinceFrame>>

\* stopStream() that drops the handle without closing the EventSource
StopStream_NoClose ==
    /\ readyState' = readyState
    /\ frameSource' = Null
    /\ timers' = IF timeoutId # Null THEN ClearTimeout(timers, timeoutId)
                                     ELSE timers
    /\ timeoutId' = Null
    /\ isRunning' = FALSE
    /\ isVideoUnavailable' = TRUE
    /\ emitted' = <<Emit("statusChanged", "false", 0),
                    Emit("disconnected", "", 0)>>
    /\ discSinceFrame' = discSinceFrame + 1
    /\ UNCHANGED <<hasLastFrame, staleSinceFrame>>

\* stopStream() that closes the EventSource but leaves the timer scheduled
StopStream_KeepsTimer ==
    /\ readyState' = IF frameSource # Null
                       THEN Close(readyState, frameSource)
                       ELSE readyState
    /\ frameSource' = Null
    /\ timers' = timers
    /\ timeoutId' = Null
    /\ isRunning' = FALSE
    /\ isVideoUnavailable' = TRUE
    /\ emitted' = <<Emit("statusChanged", "false", 0),
                    Emit("disconnected", "", 0)>>
    /\ discSinceFrame' = discSinceFrame + 1
    /\ UNCHANGED <<hasLastFrame, staleSinceFrame>>

\* stopStream()
StopStream ==
    /\ readyState' = IF frameSource # Null
                       THEN Close(readyState, frameSource)
                       ELSE readyState
    /\ frameSource' = Null
    /\ timers' = IF timeoutId # Null THEN ClearTimeout(timers, timeoutId)
                                     ELSE timers
    /\ timeoutId' = Null
    /\ isRunning' = FALSE
    /\ isVideoUnavailable' = TRUE
    /\ emitted' = <<Emit("statusChanged", "false", 0),
                    Emit("disconnected", "", 0)>>
    /\ discSinceFrame' = discSinceFrame + 1
    /\ UNCHANGED <<hasLastFrame, staleSinceFrame>>

\* onMounted(() => startStream())
Mounted ==
    /\ lifecycle = "setup"
    /\ lifecycle' = "mounted"
    /\ StartStream
    /\ lastOp' = "onMounted" /\ lastData' = "" /\ lastInput' = NoInput
    /\ UNCHANGED <<metaVars, ctrlVars>>

\* a teardown that does not stop the stream
Unmounted_NoStop ==
    /\ lifecycle = "mounted"
    /\ lifecycle' = "unmounted"
    /\ emitted' = <<>>
    /\ lastOp' = "onUnmounted" /\ lastData' = "" /\ lastInput' = NoInput
    /\ UNCHANGED <<frameSource, readyState, isRunning, isVideoUnavailable,
                   hasLastFrame, timeoutId, timers, staleSinceFrame,
                   discSinceFrame, metaVars, ctrlVars>>

\* onUnmounted(() => stopStream())
Unmounted ==
    /\ lifecycle = "mounted"
    /\ lifecycle' = "unmounted"
    /\ StopStream
    /\ lastOp' = "onUnmounted" /\ lastData' = "" /\ lastInput' = NoInput
    /\ UNCHANGED <<metaVars, ctrlVars>>

\* toggleStream(): the start/stop button of the mounted component
ToggleStream ==
    /\ lifecycle = "mounted"
    /\ IF isRunning
         THEN StopStream /\ lastOp' = "toggleStream.stop" /\ lastData' = "" /\ lastInput' = NoInput
         ELSE /\ Len(readyState) < MaxConns
              /\ StartStream
              /\ lastOp' = "toggleStream.start" /\ lastData' = "" /\ lastInput' = NoInput
    /\ UNCHANGED <<lifecycle, metaVars, ctrlVars>>

\* setTimeout without the clearTimeout before it
Reschedule_NoCancel(ts, id) == Append(ts, "PENDING")

\* lines 48-56: clearTimeout(timeoutId) when one is stored, then setTimeout
Reschedule(ts, id) ==
    Append(IF id # Null THEN ClearTimeout(ts, id) ELSE ts, "PENDING")

\* the try block of onmessage throws: JSON.parse does, or data.frame does
\* because data is null
Throws(text) ==
    \/ JSONParse(text) = "SyntaxError"
    \/ FrameElement /\ JSONParse(text) = "null"

\* a try block that leaves "video unavailable" as it was
OnMessageTry_KeepsUnavailable ==
    /\ Len(timers) < MaxTimers
    /\ hasLastFrame' = IF FrameElement THEN TRUE ELSE hasLastFrame
    /\ isVideoUnavailable' = isVideoUnavailable
    /\ timers' = Reschedule(timers, timeoutId)
    /\ timeoutId' = Len(timers) + 1
    /\ emitted' = <<>>
    /\ lastOp' = "onmessage"
    /\ staleSinceFrame' = 0
    /\ discSinceFrame' = 0
    /\ UNCHANGED <<frameSource, readyState, isRunning>>

\* onmessage, the try block ran to its end
OnMessageTry ==
    /\ Len(timers) < MaxTimers
    /\ hasLastFrame' = IF FrameElement THEN TRUE ELSE hasLastFrame
    /\ isVideoUnavailable' = IF FrameElement THEN FALSE ELSE isVideoUnavailable
    /\ timers' = Reschedule(timers, timeoutId)
    /\ timeoutId' = Len(timers) + 1
    /\ emitted' = <<>>
    /\ lastOp' = "onmessage"
    /\ staleSinceFrame' = 0
    /\ discSinceFrame' = 0
    /\ UNCHANGED <<frameSource, readyState, isRunning>>

\* a catch block that also gives up the connection
OnMessageCatch_Closes ==
    /\ isVideoUnavailable' = TRUE
    /\ emitted' = <<Emit("error", "Failed to parse frame data", 0)>>
    /\ lastOp' = "onmessage.catch"
    /\ readyState' = Close(readyState, frameSource)
    /\ UNCHANGED <<frameSource, isRunning, hasLastFrame, timeoutId,
                   timers, staleSinceFrame, discSinceFrame>>

\* onmessage, the catch block
OnMessageCatch ==
    /\ isVideoUnavailable' = TRUE
    /\ emitted' = <<Emit("error", "Failed to parse frame data", 0)>>
    /\ lastOp' = "onmessage.catch"
    /\ UNCHANGED <<frameSource, readyState, isRunning, hasLastFrame, timeoutId,
                   timers, staleSinceFrame, discSinceFrame>>

\* frameSource.onmessage: delivered only by an EventSource that is OPEN
OnMessage(c, text) ==
    /\ c = frameSource
    /\ readyState[c] = "OPEN"
    /\ IF Throws(text) THEN OnMessageCatch ELSE OnMessageTry
    /\ lastData' = text /\ lastInput' = NoInput
    /\ UNCHANGED <<lifecycle, metaVars, ctrlVars>>

\* onerror that also cancels the staleness timer
OnError_DropsTimer(c, next) ==
    /\ c = frameSource
    /\ readyState[c] \in {"CONNECTING", "OPEN"}
    /\ readyState' = [readyState EXCEPT ![c] = next]
    /\ isVideoUnavailable' = TRUE
    /\ timers' = IF timeoutId # Null THEN ClearTimeout(timers, timeoutId)
                                     ELSE timers
    /\ timeoutId' = Null
    /\ emitted' = <<Emit("error", "EventSource connection error", 0)>>
    /\ lastOp' = "onerror" /\ lastData' = "" /\ lastInput' = NoInput
    /\ UNCHANGED <<lifecycle, frameSource, isRunning, hasLastFrame,
                   staleSinceFrame, discSinceFrame, metaVars, ctrlVars>>

\* frameSource.onerror: the connection was lost; the EventSource either
\* reconnects (CONNECTING) or gives up (CLOSED)
OnError(c, next) ==
    /\ c = frameSource
    /\ readyState[c] \in {"CONNECTING", "OPEN"}
    /\ readyState' = [readyState EXCEPT ![c] = next]
    /\ isVideoUnavailable' = TRUE
    /\ emitted' = <<Emit("error", "EventSource connection error", 0)>>
    /\ lastOp' = "onerror" /\ lastData' = "" /\ lastInput' = NoInput
    /\ UNCHANGED <<lifecycle, frameSource, isRunning, hasLastFrame, timeoutId,
                   timers, staleSinceFrame, discSinceFrame, metaVars, ctrlVars>>

\* frameSource.onopen
OnOpen(c) ==
    /\ c = frameSource
    /\ readyState[c] = "CONNECTING"
    /\ readyState' = [readyState EXCEPT ![c] = "OPEN"]
    /\ isVideoUnavailable' = FALSE
    /\ emitted' = <<Emit("connected", "", 0)>>
    /\ lastOp' = "onopen" /\ lastData' = "" /\ lastInput' = NoInput
    /\ UNCHANGED <<lifecycle, frameSource, isRunning, hasLastFrame, timeoutId,
                   timers, staleSinceFrame, discSinceFrame, metaVars, ctrlVars>>

\* a timer that stays armed after it fired (setInterval)
TimerFired_Repeats(t) ==
    /\ timers[t] = "PENDING"
    /\ timers' = timers
    /\ isVideoUnavailable' = TRUE
    /\ emitted' = <<Emit("disconnected", "", 0)>>
    /\ lastOp' = "timeout" /\ lastData' = "" /\ lastInput' = NoInput
    /\ staleSinceFrame' = staleSinceFrame + 1
    /\ discSinceFrame' = discSinceFrame + 1
    /\ UNCHANGED <<lifecycle, frameSource, readyState, isRunning, hasLastFrame,
                   timeoutId, metaVars, ctrlVars>>

\* the setTimeout callback of timer t runs
TimerFired(t) ==
    /\ timers[t] = "PENDING"
    /\ timers' = [timers EXCEPT ![t] = "FIRED"]
    /\ isVideoUnavailable' = TRUE
    /\ emitted' = <<Emit("disconnected", "", 0)>>
    /\ lastOp' = "timeout" /\ lastData' = "" /\ lastInput' = NoInput
    /\ staleSinceFrame' = staleSinceFrame + 1
    /\ discSinceFrame' = discSinceFrame + 1
    /\ UNCHANGED <<lifecycle, frameSource, readyState, isRunning, hasLastFrame,
                   timeoutId, metaVars, ctrlVars>>

FrameNext ==
    \/ Mounted
    \/ Unmounted
    \/ ToggleStream
    \/ \E c \in 1..Len(readyState), text \in FramePayloads : OnMessage(c, text)
    \/ \E c \in 1..Len(readyState), next \in {"CONNECTING", "CLOSED"} :
          OnError(c, next)
    \/ \E c \in 1..Len(readyState) : OnOpen(c)
    \/ \E t \in 1..Len(timers) : TimerFired(t)

\* ---------------------------------------------- metadata stream consumer
\* startStream()
MetaStartStream ==
    /\ metaReadyState' = Append(IF metadataSource # Null
                                  THEN Close(metaReadyState, metadataSource)
                                  ELSE metaReadyState,
                                "CONNECTING")
    /\ metadataSource' = Len(metaReadyState) + 1
    /\ metaIsRunning' = TRUE
    /\ emitted' = <<Emit("statusChanged", "true", 0)>>
    /\ UNCHANGED metadata

\* stopStream() that leaves the running flag set
MetaStopStream_StaysRunning ==
    /\ metaReadyState' = IF metadataSource # Null
                           THEN Close(metaReadyState, metadataSource)
                           ELSE metaReadyState
    /\ metadataSource' = Null
    /\ metaIsRunning' = metaIsRunning
    /\ emitted' = <<Emit("statusChanged", "false", 0)>>
    /\ UNCHANGED metadata

\* stopStream() that also forgets the snapshot
MetaStopStream_ClearsSnapshot ==
    /\ metaReadyState' = IF metadataSource # Null
                           THEN Close(metaReadyState, metadataSource)
                           ELSE metaReadyState
    /\ metadataSource' = Null
    /\ metaIsRunning' = FALSE
    /\ emitted' = <<Emit("statusChanged", "false", 0)>>
    /\ metadata' = "null"

\* stopStream()
MetaStopStream ==
    /\ metaReadyState' = IF metadataSource # Null
                           THEN Close(metaReadyState, metadataSource)
                           ELSE metaReadyState
    /\ metadataSource' = Null
    /\ metaIsRunning' = FALSE
    /\ emitted' = <<Emit("statusChanged", "false", 0)>>
    /\ UNCHANGED metadata

\* onMounted(() => startStream())
MetaMounted ==
    /\ metaLifecycle = "setup"
    /\ metaLifecycle' = "mounted"
    /\ MetaStartStream
    /\ lastOp' = "meta.onMounted" /\ lastData' = "" /\ lastInput' = NoInput
    /\ UNCHANGED <<frameVars, ctrlVars>>

\* onUnmounted(() => stopStream())
MetaUnmounted ==
    /\ metaLifecycle = "mounted"
    /\ metaLifecycle' = "unmounted"
    /\ MetaStopStream
    /\ lastOp' = "meta.onUnmounted" /\ lastData' = "" /\ lastInput' = NoInput
    /\ UNCHANGED <<frameVars, ctrlVars>>

\* toggleStream()
MetaToggleStream ==
    /\ metaLifecycle = "mounted"
    /\ IF metaIsRunning
         THEN MetaStopStream /\ lastOp' = "meta.toggleStream.stop" /\ lastData' = "" /\ lastInput' = NoInput
         ELSE /\ Len(metaReadyState) < MaxConns
              /\ MetaStartStream
              /\ lastOp' = "meta.toggleStream.start" /\ lastData' = "" /\ lastInput' = NoInput
    /\ UNCHANGED <<metaLifecycle, frameVars, ctrlVars>>

\* the EventSource connects; the component registers no onopen handler
MetaOpened(c) ==
    /\ c = metadataSource
    /\ metaReadyState[c] = "CONNECTING"
    /\ metaReadyState' = [metaReadyState EXCEPT ![c] = "OPEN"]
    /\ emitted' = <<>>
    /\ lastOp' = "meta.open" /\ lastData' = "" /\ lastInput' = NoInput
    /\ UNCHANGED <<metaLifecycle, metadataSource, metaIsRunning, metadata,
                   frameVars, ctrlVars>>

\* onmessage whose catch block drops the snapshot
MetaOnMessage_ClearsOnError(c, text) ==
    /\ c = metadataSource
    /\ metaReadyState[c] = "OPEN"
    /\ LET data == JSONParse(text)
       IN IF data = "SyntaxError"
            THEN /\ emitted' = <<Emit("error", "Failed to parse metadata", 0)>>
                 /\ lastOp' = "meta.onmessage.catch"
                 /\ metadata' = "null"
            ELSE /\ metadata' = data
                 /\ emitted' = <<Emit("dataReceived", data, 0)>>
                 /\ lastOp' = "meta.onmessage"
    /\ lastData' = text /\ lastInput' = NoInput
    /\ UNCHANGED <<metaLifecycle, metadataSource, metaReadyState,
                   metaIsRunning, frameVars, ctrlVars>>

\* <div v-if="metadata && isRunning">: the snapshot is rendered
MetaPanelShown == metadata # "null" /\ metaIsRunning

\* metadataSource.onmessage
MetaOnMessage(c, text) ==
    /\ c = metadataSource
    /\ metaReadyState[c] = "OPEN"
    /\ LET data == JSONParse(text)
       IN IF data = "SyntaxError"
            THEN /\ emitted' = <<Emit("error", "Failed to parse metadata", 0)>>
                 /\ lastOp' = "meta.onmessage.catch"
                 /\ UNCHANGED metadata
            ELSE /\ metadata' = data
                 /\ emitted' = <<Emit("dataReceived", data, 0)>>
                 /\ lastOp' = "meta.onmessage"
    /\ lastData' = text /\ lastInput' = NoInput
    /\ UNCHANGED <<metaLifecycle, metadataSource, metaReadyState,
                   metaIsRunning, frameVars, ctrlVars>>

\* metadataSource.onerror
MetaOnError(c, next) ==
    /\ c = metadataSource
    /\ metaReadyState[c] \in {"CONNECTING", "OPEN"}
    /\ metaReadyState' = [metaReadyState EXCEPT ![c] = next]
    /\ emitted' = <<Emit("error", "Metadata connection error", 0)>>
    /\ lastOp' = "meta.onerror" /\ lastData' = "" /\ lastInput' = NoInput
    /\ UNCHANGED <<metaLifecycle, metadataSource, metaIsRunning, metadata,
                   frameVars, ctrlVars>>

MetaNext ==
    \/ MetaMounted
    \/ MetaUnmounted
    \/ MetaToggleStream
    \/ \E c \in 1..Len(metaReadyState) : MetaOpened(c)
    \/ \E c \in 1..Len(metaReadyState), text \in MetaPayloads :
          MetaOnMessage(c, text)
    \/ \E c \in 1..Len(metaReadyState), next \in {"CONNECTING", "CLOSED"} :
          MetaOnError(c, next)

\* ------------------------------------------------- mode/reset controller
\* response.ok
ResponseOk(status) == status >= 200 /\ status <= 299

\* the fetch settled to a response whose ok is true
Succeeded(outcome) == outcome.type = "response" /\ ResponseOk(outcome.status)

\* modes.indexOf(mode), 0-based
IndexOf(mode) == (CHOOSE i \in 1..Len(Modes) : Modes[i] = mode) - 1

\* the next mode without the wrap-around
NextMode_NoWrap(mode) ==
    Modes[IF IndexOf(mode) + 2 > Len(Modes) THEN Len(Modes)
                                            ELSE IndexOf(mode) + 2]

\* modes[(currentIndex + 1) % modes.length]
NextMode(mode) == Modes[((IndexOf(mode) + 1) % Len(Modes)) + 1]

\* the sequence s without its i-th element
RemoveAt(s, i) == SubSeq(s, 1, i - 1) \o SubSeq(s, i + 1, Len(s))

\* calls that wait for the answer of POST /increment, of POST /config
ResetCalls == {i \in 1..Len(calls) : calls[i].fn = "resetState"}
ConfigCalls == {i \in 1..Len(calls) : calls[i].fn # "resetState"}

\* resetState() without the isResetting guard
ResetState_NoGuard ==
    /\ lifecycle = "mounted"
    /\ Len(calls) < MaxCalls
    /\ isResetting' = TRUE
    /\ calls' = Append(calls, [fn |-> "resetState", mode |-> "none"])
    /\ lastOp' = "resetState" /\ lastData' = "" /\ lastInput' = NoInput
    /\ emitted' = <<>>
    /\ UNCHANGED <<aggressiveMode, isTogglingMode, frameVars, metaVars>>

\* resetState() up to `await fetch`
ResetState ==
    /\ lifecycle = "mounted"
    /\ IF isResetting
         THEN /\ lastOp' = "resetState.return" /\ lastData' = "" /\ lastInput' = NoInput
              /\ UNCHANGED <<isResetting, calls>>
         ELSE /\ Len(calls) < MaxCalls
              /\ isResetting' = TRUE
              /\ calls' = Append(calls, [fn |-> "resetState", mode |-> "none"])
              /\ lastOp' = "resetState" /\ lastData' = "" /\ lastInput' = NoInput
    /\ emitted' = <<>>
    /\ UNCHANGED <<aggressiveMode, isTogglingMode, frameVars, metaVars>>

\* resetState() that clears its flag on the success path only
ResetSettled_FlagStuck(i, outcome) ==
    /\ calls[i].fn = "resetState"
    /\ calls' = RemoveAt(calls, i)
    /\ IF Succeeded(outcome)
         THEN /\ emitted' = <<Emit("statusChanged", BoolStr(isRunning), 0)>>
              /\ lastOp' = "resetState.ok" /\ lastData' = ""
              /\ lastInput' = SettledInput(calls[i], outcome)
         ELSE /\ emitted' = <<IF outcome.type = "response"
                                THEN Emit("error",
                                          "Reset state failed: Reset failed: <status>",
                                          outcome.status)
                                ELSE Emit("error",
                                          "Reset state failed: <fetch error>", 0)>>
              /\ lastOp' = "resetState.catch" /\ lastData' = ""
              /\ lastInput' = SettledInput(calls[i], outcome)
    /\ isResetting' = ~Succeeded(outcome)
    /\ UNCHANGED <<aggressiveMode, isTogglingMode, frameVars, metaVars>>

\* resetState() that reports the stream as running on success
ResetSettled_ReportsRunning(i, outcome) ==
    /\ calls[i].fn = "resetState"
    /\ calls' = RemoveAt(calls, i)
    /\ IF Succeeded(outcome)
         THEN /\ emitted' = <<Emit("statusChanged", "true", 0)>>
              /\ lastOp' = "resetState.ok" /\ lastData' = ""
              /\ lastInput' = SettledInput(calls[i], outcome)
         ELSE /\ emitted' = <<IF outcome.type = "response"
                                THEN Emit("error",
                                          "Reset state failed: Reset failed: <status>",
                                          outcome.status)
                                ELSE Emit("error",
                                          "Reset state failed: <fetch error>", 0)>>
              /\ lastOp' = "resetState.catch" /\ lastData' = ""
              /\ lastInput' = SettledInput(calls[i], outcome)
    /\ isResetting' = FALSE
    /\ UNCHANGED <<aggressiveMode, isTogglingMode, frameVars, metaVars>>

\* resetState() after the fetch settled
ResetSettled(i, outcome) ==
    /\ calls[i].fn = "resetState"
    /\ calls' = RemoveAt(calls, i)
    /\ IF Succeeded(outcome)
         THEN /\ emitted' = <<Emit("statusChanged", BoolStr(isRunning), 0)>>
              /\ lastOp' = "resetState.ok" /\ lastData' = ""
              /\ lastInput' = SettledInput(calls[i], outcome)
         ELSE /\ emitted' = <<IF outcome.type = "response"
                                THEN Emit("error",
                                          "Reset state failed: Reset failed: <status>",
                                          outcome.status)
                                ELSE Emit("error",
                                          "Reset state failed: <fetch error>", 0)>>
              /\ lastOp' = "resetState.catch" /\ lastData' = ""
              /\ lastInput' = SettledInput(calls[i], outcome)
    /\ isResetting' = FALSE
    /\ UNCHANGED <<aggressiveMode, isTogglingMode, frameVars, metaVars>>

\* toggleAggressiveMode() up to `await fetch`
ToggleAggressiveMode ==
    /\ lifecycle = "mounted"
    /\ IF isTogglingMode
         THEN /\ lastOp' = "toggleAggressiveMode.return" /\ lastData' = "" /\ lastInput' = NoInput
              /\ UNCHANGED <<isTogglingMode, calls>>
         ELSE /\ Len(calls) < MaxCalls
              /\ isTogglingMode' = TRUE
              /\ calls' = Append(calls, [fn |-> "toggleAggressiveMode",
                                         mode |-> NextMode(aggressiveMode)])
              /\ lastOp' = "toggleAggressiveMode" /\ lastData' = "" /\ lastInput' = NoInput
    /\ emitted' = <<>>
    /\ UNCHANGED <<aggressiveMode, isResetting, frameVars, metaVars>>

\* toggleAggressiveMode() that stores the mode before checking the answer
ToggleSettled_StoresOnFailure(i, outcome) ==
    /\ calls[i].fn = "toggleAggressiveMode"
    /\ calls' = RemoveAt(calls, i)
    /\ IF Succeeded(outcome)
         THEN /\ aggressiveMode' = calls[i].mode
              /\ emitted' = <<Emit("statusChanged", BoolStr(isRunning), 0)>>
              /\ lastOp' = "toggleAggressiveMode.ok" /\ lastData' = ""
              /\ lastInput' = SettledInput(calls[i], outcome)
         ELSE /\ emitted' = <<IF outcome.type = "response"
                                THEN Emit("error",
                                          "Toggle aggressive mode failed: Config update failed: <status>",
                                          outcome.status)
                                ELSE Emit("error",
                                          "Toggle aggressive mode failed: <fetch error>", 0)>>
              /\ lastOp' = "toggleAggressiveMode.catch" /\ lastData' = ""
              /\ lastInput' = SettledInput(calls[i], outcome)
              /\ aggressiveMode' = calls[i].mode
    /\ isTogglingMode' = FALSE
    /\ UNCHANGED <<isResetting, frameVars, metaVars>>

\* toggleAggressiveMode() after the fetch settled
ToggleSettled(i, outcome) ==
    /\ calls[i].fn = "toggleAggressiveMode"
    /\ calls' = RemoveAt(calls, i)
    /\ IF Succeeded(outcome)
         THEN /\ aggressiveMode' = calls[i].mode
              /\ emitted' = <<Emit("statusChanged", BoolStr(isRunning), 0)>>
              /\ lastOp' = "toggleAggressiveMode.ok" /\ lastData' = ""
              /\ lastInput' = SettledInput(calls[i], outcome)
         ELSE /\ emitted' = <<IF outcome.type = "response"
                                THEN Emit("error",
                                          "Toggle aggressive mode failed: Config update failed: <status>",
                                          outcome.status)
                                ELSE Emit("error",
                                          "Toggle aggressive mode failed: <fetch error>", 0)>>
              /\ lastOp' = "toggleAggressiveMode.catch" /\ lastData' = ""
              /\ lastInput' = SettledInput(calls[i], outcome)
              /\ UNCHANGED aggressiveMode
    /\ isTogglingMode' = FALSE
    /\ UNCHANGED <<isResetting, frameVars, metaVars>>

\* setAggressiveMode() without the comparison with the held mode
SetAggressiveModeCall_NoSameCheck(held, mode) ==
    /\ aggressiveMode' = held
    /\ IF isTogglingMode
         THEN UNCHANGED <<isTogglingMode, calls>>
         ELSE /\ Len(calls) < MaxCalls
              /\ isTogglingMode' = TRUE
              /\ calls' = Append(calls, [fn |-> "setAggressiveMode",
                                         mode |-> mode])
    /\ emitted' = <<>>
    /\ lastData' = "" /\ lastInput' = CallInput(mode)
    /\ UNCHANGED <<isResetting, frameVars, metaVars>>

\* setAggressiveMode(mode) up to `await fetch`, called while the held mode
\* is `held`; TRUE in `sent` when the call went on to its fetch
SetAggressiveModeCall(held, mode) ==
    /\ aggressiveMode' = held
    /\ IF isTogglingMode \/ held = mode
         THEN UNCHANGED <<isTogglingMode, calls>>
         ELSE /\ Len(calls) < MaxCalls
              /\ isTogglingMode' = TRUE
              /\ calls' = Append(calls, [fn |-> "setAggressiveMode",
                                         mode |-> mode])
    /\ emitted' = <<>>
    /\ lastData' = "" /\ lastInput' = CallInput(mode)
    /\ UNCHANGED <<isResetting, frameVars, metaVars>>

\* setAggressiveMode(mode) as an operation of the controller
SetAggressiveMode(mode) ==
    /\ lifecycle = "mounted"
    /\ SetAggressiveModeCall(aggressiveMode, mode)
    /\ lastOp' = (IF isTogglingMode \/ aggressiveMode = mode
                    THEN "setAggressiveMode.return"
                    ELSE "setAggressiveMode")

\* a selector that stays enabled while a mode change is in flight
SelectChange_NeverDisabled(m) ==
    /\ lifecycle = "mounted"
    /\ m # aggressiveMode
    /\ SetAggressiveModeCall(m, m)
    /\ lastOp' = "select.change"

\* the user picks option m of <select v-model="aggressiveMode"
\* :disabled="isTogglingMode" @change="setAggressiveMode(aggressiveMode)">:
\* v-model stores m, then the handler is called with the stored value
SelectChange(m) ==
    /\ lifecycle = "mounted"
    /\ ~isTogglingMode
    /\ m # aggressiveMode
    /\ SetAggressiveModeCall(m, m)
    /\ lastOp' = "select.change"

\* setAggressiveMode() after the fetch settled
SetSettled(i, outcome) ==
    /\ calls[i].fn = "setAggressiveMode"
    /\ calls' = RemoveAt(calls, i)
    /\ IF Succeeded(outcome)
         THEN /\ aggressiveMode' = calls[i].mode
              /\ emitted' = <<Emit("statusChanged", BoolStr(isRunning), 0)>>
              /\ lastOp' = "setAggressiveMode.ok" /\ lastData' = ""
              /\ lastInput' = SettledInput(calls[i], outcome)
         ELSE /\ emitted' = <<IF outcome.type = "response"
                                THEN Emit("error",
                                          "Set aggressive mode failed: Config update failed: <status>",
                                          outcome.status)
                                ELSE Emit("error",
                                          "Set aggressive mode failed: <fetch error>", 0)>>
              /\ lastOp' = "setAggressiveMode.catch" /\ lastData' = ""
              /\ lastInput' = SettledInput(calls[i], outcome)
              /\ UNCHANGED aggressiveMode
    /\ isTogglingMode' = FALSE
    /\ UNCHANGED <<isResetting, frameVars, metaVars>>

CtrlNext ==
    \/ ResetState
    \/ ToggleAggressiveMode
    \/ \E mode \in ModeSet : SetAggressiveMode(mode)
    \/ \E m \in ModeSet : SelectChange(m)
    \/ \E i \in 1..Len(calls), outcome \in Outcomes : ResetSettled(i, outcome)
    \/ \E i \in 1..Len(calls), outcome \in Outcomes : ToggleSettled(i, outcome)
    \/ \E i \in 1..Len(calls), outcome \in Outcomes : SetSettled(i, outcome)

Next == FrameNext \/ MetaNext \/ CtrlNext

Spec == Init /\ [][Next]_vars

\* the two stream consumers without the controller
StreamsNext == FrameNext \/ MetaNext
SpecStreams == Init /\ [][StreamsNext]_vars

\* the video component: the frame stream consumer and its controller
PanelNext == FrameNext \/ CtrlNext
SpecPanel == Init /\ [][PanelNext]_vars

\* the frame stream consumer alone
SpecFrame == Init /\ [][FrameNext]_vars

\* ================================================================ claims
StreamVars == <<frameVars, metaVars>>
ProgramVars == <<lifecycle, frameSource, readyState, isRunning,
                 isVideoUnavailable, hasLastFrame, timeoutId, timers,
                 metaVars, ctrlVars>>
MalformedPayloads == {"truncated_json"}
WellFormedFrames == {"frame_object"}
StartOps == {"onMounted", "toggleStream.start"}
MetaStartOps == {"meta.onMounted", "meta.toggleStream.start"}
StopOps == {"onUnmounted", "toggleStream.stop"}
MessageOps == {"onmessage", "onmessage.catch"}

C2_SingleStalenessTimer ==
    /\ Cardinality(PendingTimers) <= 1
    /\ PendingTimers \subseteq {timeoutId}
    /\ timeoutId # Null => timeoutId = Len(timers)
    /\ lastOp = "onmessage" =>
          /\ timeoutId = Len(timers)
          /\ PendingTimers = {timeoutId}

\* a frame message replaced a timer that was still pending
C2_Witness ==
    /\ lastOp = "onmessage"
    /\ Len(timers) >= 2
    /\ timers[Len(timers) - 1] = "CLEARED"
    /\ timers[Len(timers)] = "PENDING"

\* C3: the held aggressive mode changes only in the step in which a mode
\* request completes successfully.
C3_ModeChangesOnlyOnSuccess ==
    [][aggressiveMode' # aggressiveMode =>
          lastOp' \in {"toggleAggressiveMode.ok", "setAggressiveMode.ok"}]_vars

\* C4 as claimed: once the staleness timer has fired in an idle period,
\* that period sees exactly one disconnected notification, whatever else
\* (a stop included) happens before the next frame message.
C4_Original == staleSinceFrame >= 1 => discSinceFrame = 1

\* C4 as amended: the staleness timer emits disconnected at most once
\* between two processed frame messages, and that firing emits exactly one
\* disconnected; the other disconnected notifications of the period are
\* those of stop().
C4_StalenessFiresOncePerIdlePeriod ==
    /\ staleSinceFrame <= 1
    /\ lastOp = "timeout" =>
          /\ staleSinceFrame = 1
          /\ emitted = <<Emit("disconnected", "", 0)>>
          /\ PendingTimers = {}
    /\ lastOp \in StopOps => discSinceFrame >= 1 + staleSinceFrame

\* the timer fired after a frame, then the consumer was stopped: two
\* disconnected notifications in one idle period
C4_Witness ==
    /\ lastOp = "toggleStream.stop"
    /\ staleSinceFrame = 1
    /\ discSinceFrame = 2
    /\ hasLastFrame

\* C5: a timer that fires is the most recently scheduled one and the one
\* the handle names; a timer cancelled by a newer frame stays cancelled.
C5_OnlyLatestTimerFires ==
    [][\A t \in 1..Len(timers) :
          /\ (timers[t] = "PENDING" /\ timers'[t] = "FIRED") =>
                (t = timeoutId /\ t = Len(timers))
          /\ timers[t] = "CLEARED" => timers'[t] = "CLEARED"]_vars

\* the latest timer fired after an older one had been cancelled by a frame
C5_Witness ==
    /\ lastOp = "timeout"
    /\ Len(timers) >= 2
    /\ timers[1] = "CLEARED"
    /\ timers[Len(timers)] = "FIRED"
    /\ isRunning

\* C6: after a well-formed frame message was processed a frame has been
\* displayed, video is available, and the only pending timer is the one
\* just scheduled.
C6_FrameProcessed ==
    (lastOp \in MessageOps /\ lastData \in WellFormedFrames) =>
        /\ lastOp = "onmessage"
        /\ hasLastFrame
        /\ ~isVideoUnavailable
        /\ timeoutId = Len(timers)
        /\ PendingTimers = {timeoutId}

\* a frame processed after the previous timer had fired
C6_Witness ==
    /\ lastOp = "onmessage"
    /\ lastData \in WellFormedFrames
    /\ Len(timers) >= 2
    /\ timers[Len(timers) - 1] = "FIRED"

C8_AfterStop ==
    /\ lastOp \in StopOps =>
          /\ frameSource = Null
          /\ OpenConns(readyState) = {}
          /\ timeoutId = Null
          /\ PendingTimers = {}
          /\ ~isRunning
          /\ isVideoUnavailable
          /\ emitted = <<Emit("statusChanged", "false", 0),
                         Emit("disconnected", "", 0)>>
    /\ ~isRunning => PendingTimers = {}
    /\ lastOp = "timeout" => isRunning

\* stop() cancelled a timer that was pending
C8_Witness ==
    /\ lastOp = "toggleStream.stop"
    /\ Len(timers) >= 1
    /\ timers[Len(timers)] = "CLEARED"
    /\ hasLastFrame

\* C9: mount starts the stream of each consumer; after teardown a consumer
\* holds no open connection and (frame consumer) no pending timer.
C9_MountStartsTeardownReleases ==
    /\ lastOp = "onMounted" =>
          (isRunning /\ OpenConns(readyState) = {frameSource})
    /\ lastOp = "meta.onMounted" =>
          (metaIsRunning /\ OpenConns(metaReadyState) = {metadataSource})
    /\ lifecycle = "unmounted" =>
          /\ OpenConns(readyState) = {}
          /\ PendingTimers = {}
          /\ frameSource = Null /\ timeoutId = Null /\ ~isRunning
    /\ metaLifecycle = "unmounted" =>
          /\ OpenConns(metaReadyState) = {}
          /\ metadataSource = Null /\ ~metaIsRunning

\* both consumers were torn down while running, the frame consumer with a
\* pending timer
C9_Witness ==
    /\ lifecycle = "unmounted"
    /\ metaLifecycle = "unmounted"
    /\ Len(readyState) = 1
    /\ Len(metaReadyState) = 1
    /\ Len(timers) >= 1
    /\ timers[Len(timers)] = "CLEARED"

\* C10: resetState, toggleAggressiveMode and setAggressiveMode called while
\* their in-flight flag is set change nothing, send nothing and emit
\* nothing; at most one POST /increment and at most one POST /config is
\* outstanding.
C10_Dropped ==
    /\ (isResetting /\ lastOp' \in {"resetState", "resetState.return"}) =>
          (UNCHANGED ProgramVars /\ emitted' = <<>>)
    /\ (isTogglingMode /\ lastOp' \in {"toggleAggressiveMode",
                                        "toggleAggressiveMode.return",
                                        "setAggressiveMode",
                                        "setAggressiveMode.return"}) =>
          (UNCHANGED ProgramVars /\ emitted' = <<>>)
C10_InFlightCallsAreDropped ==
    /\ [](Cardinality(ResetCalls) <= 1 /\ Cardinality(ConfigCalls) <= 1)
    /\ [](isResetting <=> ResetCalls # {})
    /\ [](isTogglingMode <=> ConfigCalls # {})
    /\ [][C10_Dropped]_vars

\* a reset was dropped while a reset and a mode change were outstanding
C10_Witness ==
    /\ lastOp = "resetState.return"
    /\ Cardinality(ResetCalls) = 1
    /\ Cardinality(ConfigCalls) = 1

ResetSettledOps == {"resetState.ok", "resetState.catch"}
ConfigSettledOps == {"toggleAggressiveMode.ok", "toggleAggressiveMode.catch",
                     "setAggressiveMode.ok", "setAggressiveMode.catch"}
ConfigOkOps == {"toggleAggressiveMode.ok", "setAggressiveMode.ok"}
SetCallOps == {"setAggressiveMode", "setAggressiveMode.return"}
MetaMessageOps == {"meta.onmessage", "meta.onmessage.catch"}
MetaStopOps == {"meta.onUnmounted", "meta.toggleStream.stop"}
\* idle -> chasing -> explosion -> idle
CyclicSuccessor(m) ==
    CASE m = "idle" -> "chasing"
      [] m = "chasing" -> "explosion"
      [] m = "explosion" -> "idle"
\* the fetch of the handler that ran last answered 2xx
LastSucceeded ==
    /\ lastInput.type = "response"
    /\ lastInput.status \in 200..299

\* C11: when a control request completes, by a 2xx response, another
\* response or a rejection, its in-flight flag is cleared; a non-2xx answer
\* to resetState emits one error notification carrying the status code, a
\* rejection one error notification.
C11_FlagClearedOnCompletion ==
    [][/\ lastOp' \in ResetSettledOps =>
            /\ isResetting /\ ~isResetting'
            /\ ~LastSucceeded' =>
                  /\ Len(emitted') = 1
                  /\ emitted'[1].name = "error"
                  /\ emitted'[1].code = lastInput'.status
       /\ lastOp' \in ConfigSettledOps =>
            (isTogglingMode /\ ~isTogglingMode')]_vars

\* resetState got HTTP 500 while a mode change was still in flight
C11_Witness ==
    /\ lastOp = "resetState.catch"
    /\ lastInput.status = 500
    /\ emitted = <<Emit("error", "Reset state failed: Reset failed: <status>", 500)>>
    /\ ~isResetting
    /\ isTogglingMode

\* C12: setAggressiveMode(m) called with the held mode changes nothing,
\* sends nothing and emits nothing.
C12_SetSameModeIsNoOp ==
    [][(lastOp' \in SetCallOps /\ lastInput'.mode = aggressiveMode) =>
          (UNCHANGED ProgramVars /\ emitted' = <<>>)]_vars

\* setAggressiveMode('chasing') while 'chasing' is held, nothing in flight
C12_Witness ==
    /\ lastOp = "setAggressiveMode.return"
    /\ lastInput.mode = aggressiveMode
    /\ aggressiveMode = "chasing"
    /\ ~isTogglingMode
    /\ calls = <<>>

\* C13: toggleAggressiveMode sends the cyclic successor of the held mode
\* and, on success, stores it as the successor of the mode then held; the
\* successor applied three times is the identity.
C13_ToggleCycles ==
    /\ [](\A m \in ModeSet : NextMode(NextMode(NextMode(m))) = m)
    /\ [][/\ lastOp' = "toggleAggressiveMode" =>
               /\ Len(calls') = Len(calls) + 1
               /\ calls'[Len(calls')].fn = "toggleAggressiveMode"
               /\ calls'[Len(calls')].mode = CyclicSuccessor(aggressiveMode)
          /\ lastOp' = "toggleAggressiveMode.ok" =>
               /\ aggressiveMode' = CyclicSuccessor(aggressiveMode)
               /\ aggressiveMode' = lastInput'.mode]_vars

\* a successful toggle wrapped around from explosion to idle
C13_Witness ==
    /\ lastOp = "toggleAggressiveMode.ok"
    /\ lastInput.mode = "idle"
    /\ aggressiveMode = "idle"

\* C14: from the call of a mode change to its completion the held mode
\* stays as it was unless the request succeeds; a failed completion emits
\* one error notification.
C14_FailedModeChange ==
    [][/\ (isTogglingMode /\ ~(lastOp' \in ConfigOkOps /\ LastSucceeded')) =>
             aggressiveMode' = aggressiveMode
       /\ lastOp' \in {"toggleAggressiveMode", "setAggressiveMode"} =>
             aggressiveMode' = aggressiveMode
       /\ (lastOp' \in ConfigSettledOps /\ ~LastSucceeded') =>
             /\ Len(emitted') = 1
             /\ emitted'[1].name = "error"]_vars

\* a toggle away from 'chasing' was answered 404: 'chasing' is still held
C14_Witness ==
    /\ lastOp = "toggleAggressiveMode.catch"
    /\ lastInput.status = 404
    /\ lastInput.mode = "explosion"
    /\ aggressiveMode = "chasing"
    /\ emitted[1].name = "error"

\* C15: a metadata message that parses replaces the snapshot by its value
\* and emits dataReceived with that value; one that does not parse emits
\* an error and leaves snapshot, running flag, handle and connection alone.
C15_MetadataMessage ==
    [][lastOp' \in MetaMessageOps =>
          IF lastData' \in MalformedPayloads
            THEN /\ emitted' = <<Emit("error", "Failed to parse metadata", 0)>>
                 /\ UNCHANGED metaVars
            ELSE /\ metadata' = (IF lastData' = "null_literal" THEN "null"
                                                               ELSE lastData')
                 /\ emitted' = <<Emit("dataReceived", metadata', 0)>>
                 /\ UNCHANGED <<metaIsRunning, metadataSource,
                                metaReadyState>>]_vars

\* a message that does not parse arrived while a snapshot was held
C15_Witness ==
    /\ lastOp = "meta.onmessage.catch"
    /\ lastData \in MalformedPayloads
    /\ metadata = "snapshot_b"
    /\ metaIsRunning

\* C16: a transport error sets "video unavailable" and emits an error, and
\* leaves handle, running flag and timer alone; an open confirmation clears
\* "video unavailable" and emits connected.
C16_TransportError ==
    [][/\ lastOp' = "onerror" =>
            /\ isVideoUnavailable'
            /\ emitted' = <<Emit("error", "EventSource connection error", 0)>>
            /\ UNCHANGED <<frameSource, isRunning, timeoutId, timers,
                           hasLastFrame>>
       /\ lastOp' = "onopen" =>
            /\ ~isVideoUnavailable'
            /\ emitted' = <<Emit("connected", "", 0)>>
            /\ UNCHANGED <<frameSource, isRunning, timeoutId, timers>>]_vars

\* the connection reopened after an error while the staleness timer ran
C16_Witness ==
    /\ lastOp = "onopen"
    /\ PendingTimers # {}
    /\ ~isVideoUnavailable
    /\ hasLastFrame

C18_OnlyFramesScheduleTimers ==
    /\ [](lastOp \in StartOps \cup {"timeout"} => PendingTimers = {})
    /\ [][/\ (Len(timers') > Len(timers)
                \/ ~(PendingTimers' \subseteq PendingTimers)) =>
                (lastOp' = "onmessage" /\ lastData' \notin MalformedPayloads)
          /\ lastOp' = "timeout" => PendingTimers # {}]_vars

\* an open, running connection that stays silent after its timer fired
\* and after a payload that did not parse: no timer is pending
C18_Witness ==
    /\ lastOp = "onmessage.catch"
    /\ isRunning
    /\ readyState[frameSource] = "OPEN"
    /\ Len(timers) >= 1
    /\ timers[Len(timers)] = "FIRED"
    /\ PendingTimers = {}

\* C19: stop and start of the metadata consumer keep the snapshot; it is
\* not rendered while stopped and rendered again right after a start.
C19_SnapshotSurvivesStop ==
    /\ [](lastOp \in MetaStopOps => ~MetaPanelShown)
    /\ [](lastOp \in MetaStartOps => (MetaPanelShown <=> metadata # "null"))
    /\ [][lastOp' \in MetaStopOps \cup MetaStartOps =>
             metadata' = metadata]_vars

\* restarted: the snapshot of the previous connection is rendered while
\* the new connection has not even opened
C19_Witness ==
    /\ lastOp = "meta.toggleStream.start"
    /\ metadata = "snapshot_a"
    /\ MetaPanelShown
    /\ metaReadyState[metadataSource] = "CONNECTING"
    /\ Len(metaReadyState) >= 2

\* C20: while a mode change is in flight the held mode does not move and
\* the call stays the only one; a successful toggle stores the successor of
\* the mode held when it writes, a successful setAggressiveMode(m) stores m.
C20_NoLostModeUpdate ==
    [][/\ (isTogglingMode /\ isTogglingMode') =>
            /\ aggressiveMode' = aggressiveMode
            /\ Cardinality(ConfigCalls') = 1
            /\ {calls'[i] : i \in ConfigCalls'} = {calls[i] : i \in ConfigCalls}
       /\ (lastOp' = "toggleAggressiveMode.ok") =>
            aggressiveMode' = CyclicSuccessor(aggressiveMode)
       /\ (lastOp' = "setAggressiveMode.ok") =>
            (aggressiveMode' = lastInput'.mode
               /\ aggressiveMode' # aggressiveMode)
       /\ (lastOp' \in ConfigSettledOps /\ LastSucceeded') =>
            lastOp' \in ConfigOkOps]_vars

\* setAggressiveMode('explosion') succeeded while a reset was in flight
C20_Witness ==
    /\ lastOp = "setAggressiveMode.ok"
    /\ lastInput.mode = "explosion"
    /\ aggressiveMode = "explosion"
    /\ isResetting

\* C21: every statusChanged of the video component carries the value of
\* the running flag; a control request that succeeds emits exactly one
\* statusChanged with that value and leaves running flag, handle,
\* connection, timer and "video unavailable" as they were.
C21_StatusChangedCarriesRunning ==
    /\ [](\A k \in 1..Len(emitted) :
            emitted[k].name = "statusChanged" =>
                emitted[k].arg = (IF isRunning THEN "true" ELSE "false"))
    /\ [][(lastOp' \in ResetSettledOps \cup ConfigSettledOps
              /\ LastSucceeded') =>
            /\ Len(emitted') = 1
            /\ emitted'[1].name = "statusChanged"
            /\ emitted'[1].arg = (IF isRunning THEN "true" ELSE "false")
            /\ UNCHANGED <<isRunning, frameSource, readyState, timeoutId,
                           timers, isVideoUnavailable, hasLastFrame>>]_vars

\* a reset was answered 2xx after the stream had been stopped by the
\* button: statusChanged(false), the cancelled timer stays cancelled
C21_Witness ==
    /\ lastOp = "resetState.ok"
    /\ lifecycle = "mounted"
    /\ ~isRunning
    /\ emitted = <<Emit("statusChanged", "false", 0)>>
    /\ Len(timers) >= 1
    /\ timers[Len(timers)] = "CLEARED"
====
